---------------------------- MODULE Spec2Model ----------------------------
(***************************************************************************)
(* A model of the tree bin of montaglue/concurrent_hash_table:             *)
(*   src/src/util/state.rs             the lock-state enumeration          *)
(*   src/src/core/bin_entry/tree_bin.rs   TreeBin: new, lock_root,         *)
(*                                     contended_lock, find,               *)
(*                                     remove_tree_node                    *)
(*   src/src/core/bin_entry/tree_node.rs  TreeNode: find_tree_node,        *)
(*                                     balance_insertion, rotations,       *)
(*                                     balance_deletion                    *)
(* Nodes are the numbers 1..MaxNodes and NULL is the null pointer.  Every  *)
(* atomic load, store, compare_exchange and fetch_add of code that runs    *)
(* while other threads can see the bin is one step of the thread doing it; *)
(* the atomics are taken to be sequentially consistent.                    *)
(***************************************************************************)
EXTENDS Integers, Sequences, FiniteSets, TLC

\* ------------------------------------------------------------------ bounds

\* The number of tree nodes that exist.
MaxNodes == 4

\* The saturation point of the per-node count of constructor iterations.
MaxVisits == 3

NULL == 0

Nodes == 1..MaxNodes

Ptr == Nodes \cup {NULL}

\* ------------------------------------------------- util/state.rs: State

StNone == 0

StWaiter == 1

StReader == 2

StWriter == 3

\* a & m for two's complement a and a mask 0 <= m < 4, as i64 computes it.
BitAnd(a, m) ==
    LET lo == a % 4
    IN  ((lo % 2) * (m % 2)) + 2 * (((lo \div 2) % 2) * ((m \div 2) % 2))

\* a | m for a mask 0 <= m < 4.
BitOr(a, m) == a + m - BitAnd(a, m)

\* a & !m for a mask 0 <= m < 4.
BitAndNot(a, m) == a - BitAnd(a, m)

\* ------------------------------------------------------------------ state

VARIABLES
    hash,        \* Node.hash of every node (immutable)
    key,         \* Node.key of every node (immutable)
    next,        \* Node.next
    prev,        \* TreeNode.prev
    parent,      \* TreeNode.parent
    left,        \* TreeNode.left
    right,       \* TreeNode.right
    red,         \* TreeNode.red
    root,        \* TreeBin.root (the local `root` while TreeBin::new runs)
    first,       \* TreeBin.first
    waiter,      \* TreeBin.waiter: the thread remembered, or NoThread
    lock_state,  \* TreeBin.lock_state
    npc,         \* where TreeBin::new is
    bin,         \* the head of the chain handed to TreeBin::new
    x,           \* the cursor of TreeBin::new
    visits,      \* how often TreeBin::new started its loop body on a node
    pc,          \* where each thread is
    w,           \* the locals of each thread inside remove_tree_node
    f,           \* the locals of each thread inside find
    ops,         \* calls each thread may still start
    token,       \* the park token of each thread (set by unpark)
    called,      \* the nodes remove_tree_node was ever called on
    skipped,     \* the nodes whose removal returned before the tree surgery
    retired,     \* the nodes handed to defer_destroy, with how often
    dropped      \* the nodes whose value was handed to defer_destroy, with how often

vars == <<hash, key, next, prev, parent, left, right, red, root, first, waiter,
          lock_state, npc, bin, x, visits, pc, w, f, ops, token, called, skipped, retired,
          dropped>>

nodeVars == <<next, prev, parent, left, right, red>>

newVars == <<npc, bin, x, visits>>

threadVars == <<pc, w, f, ops, token, called, skipped, retired, dropped>>

\* ------------------------------------------------------------ the tree

\* The links of all nodes as one value, for the code that runs on a tree no
\* other thread can see (TreeBin::new) .
Heap == [parent |-> parent, left |-> left, right |-> right, red |-> red]

\* (hash, key) of a against (hash, key) of b: p_hash.cmp(&hash).then(p_key.cmp(key)).
Cmp(ha, ka, hb, kb) ==
    IF ha > hb THEN "Greater"
    ELSE IF ha < hb THEN "Less"
    ELSE IF ka > kb THEN "Greater"
    ELSE IF ka < kb THEN "Less"
    ELSE "Equal"

SameTree(h, rt) == [h |-> h, root |-> rt]

\* rotate_left past its two early returns: r is p.right, rl is r.left and pp
\* is p.parent, as the code loads them; of two stores to one field the later
\* one stands.
RotateLeftLinks(h, rt, p, r, rl, pp) ==
    [h |-> [parent |-> [n \in Nodes |->
                          IF n = p THEN r
                          ELSE IF n = r THEN pp
                          ELSE IF n = rl THEN p
                          ELSE h.parent[n]],
            left |-> [n \in Nodes |->
                          IF n = r THEN p
                          ELSE IF n = pp /\ h.left[n] = p THEN r
                          ELSE h.left[n]],
            right |-> [n \in Nodes |->
                          IF n = pp /\ h.left[n] # p THEN r
                          ELSE IF n = p THEN rl
                          ELSE h.right[n]],
            red |-> [n \in Nodes |->
                          IF n = r /\ pp = NULL THEN FALSE ELSE h.red[n]]],
     root |-> IF pp = NULL THEN r ELSE rt]

\* rotate_left with lines 235-237 left out: the root it was given is returned.
RotateLeftKeepRoot(h, rt, p) ==
    IF p = NULL THEN SameTree(h, rt)
    ELSE IF h.right[p] = NULL THEN SameTree(h, rt)
    ELSE [h |-> RotateLeftLinks(h, rt, p, h.right[p], h.left[h.right[p]],
                                h.parent[p]).h,
          root |-> rt]

RotateLeft(h, rt, p) ==
    IF p = NULL THEN SameTree(h, rt)
    ELSE IF h.right[p] = NULL THEN SameTree(h, rt)
    ELSE RotateLeftLinks(h, rt, p, h.right[p], h.left[h.right[p]],
                         IF h.left[h.right[p]] = p THEN p ELSE h.parent[p])

\* rotate_right past its two early returns: l is p.left, lr is l.right.
RotateRightLinks(h, rt, p, l, lr, pp) ==
    [h |-> [parent |-> [n \in Nodes |->
                          IF n = p THEN l
                          ELSE IF n = l THEN pp
                          ELSE IF n = lr THEN p
                          ELSE h.parent[n]],
            right |-> [n \in Nodes |->
                          IF n = l THEN p
                          ELSE IF n = pp /\ h.right[n] = p THEN l
                          ELSE h.right[n]],
            left |-> [n \in Nodes |->
                          IF n = pp /\ h.right[n] # p THEN l
                          ELSE IF n = p THEN lr
                          ELSE h.left[n]],
            red |-> [n \in Nodes |->
                          IF n = l /\ pp = NULL THEN FALSE ELSE h.red[n]]],
     root |-> IF pp = NULL THEN l ELSE rt]

RotateRight(h, rt, p) ==
    IF p = NULL THEN SameTree(h, rt)
    ELSE IF h.left[p] = NULL THEN SameTree(h, rt)
    ELSE RotateRightLinks(h, rt, p, h.left[p], h.right[h.left[p]],
                          IF h.right[h.left[p]] = p THEN p ELSE h.parent[p])

SetRed(h, n, c) == [h EXCEPT !.red[n] = c]

\* Lines 163-170 (and 198-204 with left for right): recolour x's parent and
\* grandparent and rotate the grandparent; t is the tree so far.
RecolourRotate(t, xx, xp, xpp, toRight) ==
    IF xp = NULL THEN [h |-> t.h, root |-> t.root, x |-> xx]
    ELSE IF xpp = NULL
    THEN [h |-> SetRed(t.h, xp, FALSE), root |-> t.root, x |-> xx]
    ELSE IF toRight
    THEN RotateRight(SetRed(SetRed(t.h, xp, FALSE), xpp, TRUE), t.root, xpp)
            @@ [x |-> xx]
    ELSE RotateLeft(SetRed(SetRed(t.h, xp, FALSE), xpp, TRUE), t.root, xpp)
            @@ [x |-> xx]

\* Lines 150-160 (186-196): x's parent and grandparent reloaded after the
\* first rotation, which made the old parent the new x.
AfterInner(t, xx, toRight) ==
    RecolourRotate(t, xx, t.h.parent[xx],
                   IF t.h.parent[xx] = NULL THEN NULL
                   ELSE t.h.parent[t.h.parent[xx]],
                   toRight)

\* Lines 143-171: x's parent is the grandparent's left child, uncle not red.
FixLeftSide(h, rt, xx, xp, xpp) ==
    IF xx = h.right[xp]
    THEN AfterInner(RotateLeft(h, rt, xp), xp, TRUE)
    ELSE RecolourRotate(SameTree(h, rt), xx, xp, xpp, TRUE)

\* Lines 179-205: x's parent is not the grandparent's left child.
FixRightSide(h, rt, xx, xp, xpp) ==
    IF xx = h.left[xp]
    THEN AfterInner(RotateRight(h, rt, xp), xp, FALSE)
    ELSE RecolourRotate(SameTree(h, rt), xx, xp, xpp, FALSE)

\* Lines 136-142 and 175-178: uncle and parent black, grandparent red, go on
\* from the grandparent.
RedUncle(h, rt, xp, xpp, uncle) ==
    [h |-> SetRed(SetRed(SetRed(h, uncle, FALSE), xp, FALSE), xpp, TRUE),
     root |-> rt, x |-> xpp]

\* Line 133: the uncle of a parent that is a left child is red.
LeftUncleRed(h, xpp) ==
    h.right[xpp] # NULL /\ h.red[h.right[xpp]]

\* Lines 172-173: the test made when the parent is not a left child.
RightUncleRed(h, xpp) ==
    h.left[xpp] # NULL /\ h.red[xpp]

\* One turn of the loop of balance_insertion past its returns, lines 124-205.
BalanceStep(h, rt, xx, xp, xpp) ==
    IF xp = h.left[xpp]
    THEN IF LeftUncleRed(h, xpp)
         THEN RedUncle(h, rt, xp, xpp, h.right[xpp])
         ELSE FixLeftSide(h, rt, xx, xp, xpp)
    ELSE IF RightUncleRed(h, xpp)
         THEN RedUncle(h, rt, xp, xpp, h.left[xpp])
         ELSE FixRightSide(h, rt, xx, xp, xpp)

\* The loop of balance_insertion, lines 106-206, from t = [h, root, x].
RECURSIVE BalanceLoop(_)
BalanceLoop(t) ==
    IF t.h.parent[t.x] = NULL
    THEN [h |-> SetRed(t.h, t.x, FALSE), root |-> t.x]
    ELSE IF t.h.red[t.h.parent[t.x]] = FALSE
            \/ t.h.parent[t.h.parent[t.x]] = NULL
    THEN [h |-> t.h, root |-> t.root]
    ELSE BalanceLoop(BalanceStep(t.h, t.root, t.x, t.h.parent[t.x],
                                 t.h.parent[t.h.parent[t.x]]))

BalanceInsertion(h, rt, xx) ==
    BalanceLoop([h |-> SetRed(h, xx, TRUE), root |-> rt, x |-> xx])

\* ------------------------------------------------------ shape predicates

RECURSIVE Walk(_, _, _)
\* The nodes met from e along the map nx, at most n of them.
Walk(nx, e, n) ==
    IF e = NULL \/ n = 0 THEN <<>> ELSE <<e>> \o Walk(nx, nx[e], n - 1)

Range(s) == {s[i] : i \in 1..Len(s)}

\* The list as a reader walks it from first.
ListSeq == Walk(next, first, MaxNodes + 1)

ListNodes == Range(ListSeq)

RECURSIVE Below(_, _, _, _)
\* The nodes reachable from e through l and r, to depth n.
Below(l, r, e, n) ==
    IF e = NULL \/ n = 0 THEN {}
    ELSE {e} \cup Below(l, r, l[e], n - 1) \cup Below(l, r, r[e], n - 1)

TreeNodesOf(rt) == Below(left, right, rt, MaxNodes + 1)

TreeNodes == TreeNodesOf(root)

RECURSIVE InOrder(_, _, _, _)
InOrder(l, r, e, n) ==
    IF e = NULL \/ n = 0 THEN <<>>
    ELSE InOrder(l, r, l[e], n - 1) \o <<e>> \o InOrder(l, r, r[e], n - 1)

RECURSIVE BlackHeight(_, _, _, _, _)
\* The number of black nodes on every path from e to a null child, or -1
\* when two paths differ (or the links loop).
BlackHeight(l, r, c, e, n) ==
    IF e = NULL THEN 0
    ELSE IF n = 0 THEN -1
    ELSE LET a == BlackHeight(l, r, c, l[e], n - 1)
             b == BlackHeight(l, r, c, r[e], n - 1)
         IN  IF a = -1 \/ b = -1 \/ a # b THEN -1
             ELSE a + (IF c[e] THEN 0 ELSE 1)

\* Root black, no red node with a red child, equal black counts.
RedBlack(l, r, c, rt) ==
    /\ rt # NULL => ~c[rt]
    /\ \A n \in Below(l, r, rt, MaxNodes + 1) :
          c[n] => /\ (l[n] # NULL => ~c[l[n]])
                  /\ (r[n] # NULL => ~c[r[n]])
    /\ BlackHeight(l, r, c, rt, MaxNodes + 1) # -1

Less(a, b) == Cmp(hash[a], key[a], hash[b], key[b]) = "Less"

\* s is strictly ascending in (hash, key).
Ascending(s) == \A i \in 1..(Len(s) - 1) : Less(s[i], s[i + 1])


\* ---------------------------------------------------------------- threads

Writers == {"w1", "w2"}

Readers == {"r1", "r2"}

Threads == Writers \cup Readers

NoThread == "none"

\* The locals of remove_tree_node, lock_root and contended_lock before a call.
W0 == [p |-> NULL, nxt |-> NULL, prv |-> NULL, rt |-> NULL, pl |-> NULL,
       pr |-> NULL, succ |-> NULL, color |-> FALSE, sr |-> NULL, pp |-> NULL,
       sp |-> NULL, repl |-> NULL, waiting |-> FALSE, st |-> 0,
       ret |-> "none", why |-> "none", pre |-> {}, rb |-> FALSE,
       drop |-> FALSE, lst |-> {}, stale |-> FALSE]

\* The locals of find and find_tree_node before a call.
F0 == [h |-> 0, k |-> 0, e |-> NULL, s |-> 0, cur |-> NULL, pl |-> NULL,
       res |-> NULL, path |-> "none", quiet |-> FALSE]

\* -------------------------------------------------------- initial states

NoLinks == [n \in Nodes |-> NULL]

NoRed == [n \in Nodes |-> FALSE]

\* Node n of the bins: two nodes share each hash, all keys differ.
PairedHash == [n \in Nodes |-> (n + 1) \div 2]

OwnKey == [n \in Nodes |-> n]

\* A chain with a repeated (hash, key): nodes 1 and 2 are equal, 3 and 4 too.
OneHash == [n \in Nodes |-> 1]

PairedKey == [n \in Nodes |-> (n + 1) \div 2]

\* The sequences of distinct nodes of length 1..MaxNodes.
Chains ==
    UNION {{s \in [1..n -> Nodes] : \A i, j \in 1..n : i # j => s[i] # s[j]}
           : n \in 1..MaxNodes}

\* Node.next of the nodes of chain s.
NextOf(s) ==
    [n \in Nodes |->
        IF \E i \in 1..(Len(s) - 1) : s[i] = n
        THEN s[(CHOOSE i \in 1..(Len(s) - 1) : s[i] = n) + 1]
        ELSE NULL]

\* TreeNode.prev of the nodes of chain s, as the caller links them.
PrevOf(s) ==
    [n \in Nodes |->
        IF \E i \in 2..Len(s) : s[i] = n
        THEN s[(CHOOSE i \in 2..Len(s) : s[i] = n) - 1]
        ELSE NULL]

ThreadsIdle ==
    /\ pc = [t \in Threads |-> "idle"]
    /\ w = [t \in Writers |-> W0]
    /\ f = [t \in Readers |-> F0]
    /\ token = [t \in Threads |-> FALSE]
    /\ called = {}
    /\ skipped = {}
    /\ retired = [n \in Nodes |-> 0]
    /\ dropped = [n \in Nodes |-> 0]

\* TreeBin::new is handed a chain of nodes fresh from TreeNode::new.
InitNew ==
    /\ \E s \in Chains :
          /\ bin = s[1]
          /\ next = NextOf(s)
          /\ prev = PrevOf(s)
    /\ \/ hash = PairedHash /\ key = OwnKey
       \/ hash = OneHash /\ key = PairedKey
    /\ parent = NoLinks /\ left = NoLinks /\ right = NoLinks /\ red = NoRed
    /\ root = NULL /\ first = NULL /\ waiter = NoThread /\ lock_state = StNone
    /\ npc = "loop" /\ x = bin
    /\ visits = [n \in Nodes |-> 0]
    /\ ThreadsIdle
    /\ ops = [t \in Threads |-> 0]

\* ------------------------------------------------------------ TreeBin::new

Bump(v) == IF v < MaxVisits THEN v + 1 ELSE v

\* Lines 32-45: the loop head, and the first node becoming the root.
NewHeadAdvance(nx) == nx

NewHead ==
    /\ npc = "loop" /\ x # NULL
    /\ visits' = [visits EXCEPT ![x] = Bump(@)]
    /\ left' = [left EXCEPT ![x] = NULL]
    /\ right' = [right EXCEPT ![x] = NULL]
    /\ IF root = NULL
       THEN /\ parent' = [parent EXCEPT ![x] = NULL]
            /\ red' = [red EXCEPT ![x] = FALSE]
            /\ root' = x
            /\ x' = NewHeadAdvance(next[x])
            /\ npc' = "loop"
       ELSE /\ npc' = "insert"
            /\ UNCHANGED <<parent, red, root, x>>
    /\ UNCHANGED <<hash, key, next, prev, first, waiter, lock_state, bin>>
    /\ UNCHANGED threadVars

\* The cursor after the inner loop's break (line 84): it is not advanced.
NewInsertAdvance(xx, nx) == xx

\* Lines 47-85: one comparison against the root, the link when that child
\* slot is empty, balance_insertion, break.
\* Lines 71-81: x linked below xp when the slot the comparison chose is empty.
LinkChild(h, xx, xp, c) ==
    IF (IF c = "Greater" THEN h.left[xp] ELSE h.right[xp]) # NULL THEN h
    ELSE IF c = "Greater"
    THEN [h EXCEPT !.parent[xx] = xp, !.left[xp] = xx]
    ELSE [h EXCEPT !.parent[xx] = xp, !.right[xp] = xx]

NewInsertTo(b) ==
    /\ parent' = b.h.parent
    /\ left' = b.h.left
    /\ right' = b.h.right
    /\ red' = b.h.red
    /\ root' = b.root

NewInsert ==
    /\ npc = "insert"
    /\ Cmp(hash[root], key[root], hash[x], key[x]) # "Equal"
    /\ NewInsertTo(BalanceInsertion(
          LinkChild(Heap, x, root, Cmp(hash[root], key[root], hash[x], key[x])),
          root, x))
    /\ x' = NewInsertAdvance(x, next[x])
    /\ npc' = "loop"
    /\ UNCHANGED <<hash, key, next, prev, first, waiter, lock_state, bin, visits>>
    /\ UNCHANGED threadVars

\* Line 67: unreachable!() on an equal hash and key.
NewUnreachable ==
    /\ npc = "insert"
    /\ Cmp(hash[root], key[root], hash[x], key[x]) = "Equal"
    /\ npc' = "panic"
    /\ UNCHANGED <<hash, key, nodeVars, root, first, waiter, lock_state, bin, x,
                   visits>>
    /\ UNCHANGED threadVars

\* Lines 88-94: the TreeBin is built and returned.
NewReturn ==
    /\ npc = "loop" /\ x = NULL
    /\ first' = bin
    /\ waiter' = NoThread
    /\ lock_state' = StNone
    /\ npc' = "done"
    /\ UNCHANGED <<hash, key, nodeVars, root, bin, x, visits>>
    /\ UNCHANGED threadVars

NextNew == NewHead \/ NewInsert \/ NewUnreachable \/ NewReturn

SpecNew == InitNew /\ [][NextNew]_vars

\* TreeBin::new runs on one thread that is always scheduled.
FairSpecNew == InitNew /\ [][NextNew]_vars /\ WF_vars(NextNew)


\* ------------------------------------------------------- a published bin

EmptyTree == [root |-> NULL, parent |-> <<>>, left |-> <<>>, right |-> <<>>,
              red |-> <<>>]

\* Node r, red or black as c says, over the subtrees a and b.
Join(r, c, a, b) ==
    [root |-> r,
     parent |-> (IF a.root # NULL THEN a.root :> r ELSE <<>>)
                @@ (IF b.root # NULL THEN b.root :> r ELSE <<>>)
                @@ (r :> NULL) @@ a.parent @@ b.parent,
     left |-> (r :> a.root) @@ a.left @@ b.left,
     right |-> (r :> b.root) @@ a.right @@ b.right,
     red |-> (r :> c) @@ a.red @@ b.red]

RECURSIVE RBShapes(_, _, _, _)
\* The red-black trees over the nodes lo..hi in ascending order whose paths
\* hold bh black nodes; the root may be red when canRed.
RBShapes(lo, hi, bh, canRed) ==
    IF hi < lo THEN (IF bh = 0 THEN {EmptyTree} ELSE {})
    ELSE UNION {
        (IF bh = 0 THEN {}
         ELSE {Join(r, FALSE, a, b) :
                  a \in RBShapes(lo, r - 1, bh - 1, TRUE),
                  b \in RBShapes(r + 1, hi, bh - 1, TRUE)})
        \cup
        (IF ~canRed THEN {}
         ELSE {Join(r, TRUE, a, b) :
                  a \in RBShapes(lo, r - 1, bh, FALSE),
                  b \in RBShapes(r + 1, hi, bh, FALSE)})
        : r \in lo..hi}

\* The red-black trees over the nodes 1..n.
Trees(n) == UNION {RBShapes(1, n, bh, FALSE) : bh \in 1..n}

Pad(g, d) == [n \in Nodes |-> IF n \in DOMAIN g THEN g[n] ELSE d]

\* The orders in which the list can thread the nodes 1..n.
Orders(n) == {s \in Chains : Len(s) = n /\ \A i \in 1..n : s[i] <= n}

\* A TreeBin whose public fields hold the red-black tree t and the list s
\* over the same nodes 1..Len(s), unlocked and with no waiter.
BinIs(t, s) ==
    /\ hash = PairedHash /\ key = OwnKey
    /\ parent = Pad(t.parent, NULL)
    /\ left = Pad(t.left, NULL)
    /\ right = Pad(t.right, NULL)
    /\ red = Pad(t.red, FALSE)
    /\ root = t.root
    /\ next = NextOf(s)
    /\ prev = PrevOf(s)
    /\ first = s[1]
    /\ bin = s[1]
    /\ waiter = NoThread
    /\ npc = "done" /\ x = NULL
    /\ visits = [n \in Nodes |-> 0]
    /\ ThreadsIdle

\* -------------------------------------------------------- shared memory

\* The one store a step makes: field fld of node n (or of the bin) set to v.
Mem(fld, n, v) ==
    /\ next' = IF fld = "next" THEN [next EXCEPT ![n] = v] ELSE next
    /\ prev' = IF fld = "prev" THEN [prev EXCEPT ![n] = v] ELSE prev
    /\ parent' = IF fld = "parent" THEN [parent EXCEPT ![n] = v] ELSE parent
    /\ left' = IF fld = "left" THEN [left EXCEPT ![n] = v] ELSE left
    /\ right' = IF fld = "right" THEN [right EXCEPT ![n] = v] ELSE right
    /\ red' = IF fld = "red" THEN [red EXCEPT ![n] = v] ELSE red
    /\ root' = IF fld = "root" THEN v ELSE root
    /\ first' = IF fld = "first" THEN v ELSE first
    /\ lock_state' = IF fld = "lock_state" THEN v ELSE lock_state
    /\ waiter' = IF fld = "waiter" THEN v ELSE waiter

NoStore == Mem("none", NULL, NULL)

\* A step of thread t inside remove_tree_node: from one place to the next,
\* with its locals becoming wt.
WStep(t, from, to, wt) ==
    /\ pc[t] = from
    /\ pc' = [pc EXCEPT ![t] = to]
    /\ w' = [w EXCEPT ![t] = wt]
    /\ UNCHANGED <<hash, key, npc, bin, x, visits, f, ops, token, called, skipped, retired,
                 dropped>>

\* ------------------------------------------------------ remove_tree_node

\* The nodes a caller may hand to remove_tree_node: in the list, and no
\* other call was made on them.
Removable == ListNodes \ called

\* Line 220: the call, with its arguments p and drop_value.
RmEnter(t, p, dropValue) ==
    /\ pc[t] = "idle" /\ npc = "done" /\ ops[t] > 0
    /\ pc' = [pc EXCEPT ![t] = "rm_next"]
    /\ w' = [w EXCEPT ![t] = [W0 EXCEPT !.p = p, !.drop = dropValue,
                                        !.pre = TreeNodes,
                                        !.lst = IF p \in called THEN ListNodes ELSE {},
                                        !.stale = p \in called,
                                        !.rb = RedBlack(left, right, red, root)]]
    /\ ops' = [ops EXCEPT ![t] = @ - 1]
    /\ called' = called \cup {p}
    /\ NoStore
    /\ UNCHANGED <<hash, key, npc, bin, x, visits, f, token, skipped, retired,
                 dropped>>

\* A call on a node of the bin, asking for the value to be dropped.
RmCall(t, p) == p \in Removable /\ RmEnter(t, p, TRUE)

\* A call on a node of the bin whose value the caller keeps.
RmCallKeepValue(t, p) == p \in Removable /\ RmEnter(t, p, FALSE)

\* A call through a stale reference: an earlier call on p has returned.
RmCallAgain(t, p) ==
    /\ p \in called
    /\ \A u \in Writers : w[u].p # p
    /\ RmEnter(t, p, TRUE)

\* Line 227.
RmLoadNext(t) ==
    /\ pc[t] = "rm_next"
    /\ WStep(t, "rm_next", "rm_prev", [w[t] EXCEPT !.nxt = next[w[t].p]])
    /\ NoStore

\* Line 228.
RmLoadPrev(t) ==
    /\ pc[t] = "rm_prev"
    /\ WStep(t, "rm_prev", "rm_unlink1", [w[t] EXCEPT !.prv = prev[w[t].p]])
    /\ NoStore

\* Lines 230-237.
RmUnlinkPrev(t) ==
    /\ pc[t] = "rm_unlink1"
    /\ WStep(t, "rm_unlink1", "rm_unlink2", w[t])
    /\ IF w[t].prv = NULL THEN Mem("first", NULL, w[t].nxt)
       ELSE Mem("next", w[t].prv, w[t].nxt)

\* Lines 239-243 without the store: next's prev is left as it was.
RmUnlinkNextKeepPrev(t) ==
    /\ pc[t] = "rm_unlink2"
    /\ WStep(t, "rm_unlink2", "rm_first", w[t])
    /\ NoStore

\* Lines 239-243.
RmUnlinkNext(t) ==
    /\ pc[t] = "rm_unlink2"
    /\ WStep(t, "rm_unlink2", "rm_first", w[t])
    /\ IF w[t].nxt # NULL THEN Mem("prev", w[t].nxt, w[t].prv) ELSE NoStore

\* Line 245.
RmLoadFirst(t) ==
    /\ pc[t] = "rm_first"
    /\ WStep(t, "rm_first", IF first = NULL THEN "rm_clear" ELSE "rm_root", w[t])
    /\ NoStore

\* What remove_tree_node returns when the list became empty (line 247).
EmptyResult == "true"

\* An emptied list that leaves root as it is.
RmKeepRoot(t) ==
    /\ pc[t] = "rm_clear"
    /\ WStep(t, "rm_clear", "rm_ret",
             [w[t] EXCEPT !.ret = EmptyResult, !.why = "empty"])
    /\ NoStore

\* Lines 246-247.
RmClearRoot(t) ==
    /\ pc[t] = "rm_clear"
    /\ WStep(t, "rm_clear", "rm_ret",
             [w[t] EXCEPT !.ret = EmptyResult, !.why = "empty"])
    /\ Mem("root", NULL, NULL)

\* Line 250.
RmLoadRoot(t) ==
    /\ pc[t] = "rm_root"
    /\ WStep(t, "rm_root", "rm_small", [w[t] EXCEPT !.rt = root])
    /\ NoStore

\* A skipped surgery reported as "not collapsed".
NotCollapsed == "false"

\* What remove_tree_node returns when it skips the tree (line 258).
SmallResult == "true"

\* Lines 252-259.
RmSmall(t) ==
    /\ pc[t] = "rm_small"
    /\ IF w[t].rt = NULL \/ right[w[t].rt] = NULL
       THEN /\ pc' = [pc EXCEPT ![t] = "rm_ret"]
            /\ w' = [w EXCEPT ![t] = [w[t] EXCEPT !.ret = SmallResult,
                                                  !.why = "small"]]
            /\ skipped' = skipped \cup {w[t].p}
       ELSE /\ pc' = [pc EXCEPT ![t] = "lock_root"]
            /\ UNCHANGED <<w, skipped>>
    /\ NoStore
    /\ UNCHANGED <<hash, key, npc, bin, x, visits, f, ops, token, called, retired,
                 dropped>>

\* ------------------------------------------ lock_root and contended_lock

\* Lines 98-109: one compare_exchange, contended_lock when it fails.
LockRoot(t) ==
    /\ pc[t] = "lock_root"
    /\ IF lock_state = StNone
       THEN /\ WStep(t, "lock_root", "sg_pl", w[t])
            /\ Mem("lock_state", NULL, StWriter)
       ELSE /\ WStep(t, "lock_root", "cl_load", w[t])
            /\ NoStore

\* Where contended_lock goes on the state it loaded (lines 122, 140, 156).
ContendedBranch(st, waiting) ==
    IF BitAndNot(st, StWaiter) = 0 THEN "cl_cas_w"
    ELSE IF BitAnd(st, StWriter) = 0 THEN "cl_cas_wait"
    ELSE IF waiting THEN "cl_park"
    ELSE "cl_load"

\* Line 121, and the spin of line 159 when no branch is taken.
CLLoad(t) ==
    /\ pc[t] = "cl_load"
    /\ WStep(t, "cl_load", ContendedBranch(lock_state, w[t].waiting),
             [w[t] EXCEPT !.st = lock_state])
    /\ NoStore

\* Lines 123-139: the lock is taken from None or Waiter.
CLCasWriter(t) ==
    /\ pc[t] = "cl_cas_w"
    /\ IF lock_state = w[t].st
       THEN /\ WStep(t, "cl_cas_w",
                     IF w[t].waiting THEN "cl_swap_null" ELSE "sg_pl", w[t])
            /\ Mem("lock_state", NULL, StWriter)
       ELSE /\ WStep(t, "cl_cas_w", "cl_load", w[t])
            /\ NoStore

\* Lines 134-136: the waiter slot is emptied by the thread that waited.
CLSwapNull(t) ==
    /\ pc[t] = "cl_swap_null"
    /\ WStep(t, "cl_swap_null", "sg_pl", w[t])
    /\ Mem("waiter", NULL, NoThread)

\* Lines 141-151: the Waiter bit is set.
CLCasWaiter(t) ==
    /\ pc[t] = "cl_cas_wait"
    /\ IF lock_state = w[t].st
       THEN /\ WStep(t, "cl_cas_wait", "cl_swap_me", [w[t] EXCEPT !.waiting = TRUE])
            /\ Mem("lock_state", NULL, BitOr(w[t].st, StWaiter))
       ELSE /\ WStep(t, "cl_cas_wait", "cl_load", w[t])
            /\ NoStore

\* Lines 152-154: the thread registers itself; the assertion fails when the
\* slot was taken.
CLSwapMe(t) ==
    /\ pc[t] = "cl_swap_me"
    /\ WStep(t, "cl_swap_me", IF waiter = NoThread THEN "cl_load" ELSE "aborted",
             w[t])
    /\ Mem("waiter", NULL, t)

\* Line 157: park returns when the thread was unparked, taking the token.
CLPark(t) ==
    /\ pc[t] = "cl_park" /\ token[t]
    /\ pc' = [pc EXCEPT ![t] = "cl_load"]
    /\ token' = [token EXCEPT ![t] = FALSE]
    /\ NoStore
    /\ UNCHANGED <<hash, key, npc, bin, x, visits, w, f, ops, called, skipped, retired,
                 dropped>>

\* Line 157: park may also return with no unpark.
CLParkSpurious(t) ==
    /\ pc[t] = "cl_park"
    /\ WStep(t, "cl_park", "cl_load", w[t])
    /\ ~token[t]
    /\ NoStore

\* Lines 112-114.
UnlockRoot(t) ==
    /\ pc[t] = "unlock"
    /\ WStep(t, "unlock", "rm_defer", w[t])
    /\ Mem("lock_state", NULL, StNone)

\* -------------------------------------- remove_tree_node: tree surgery

\* Line 264.
SgLoadLeft(t) ==
    /\ pc[t] = "sg_pl"
    /\ WStep(t, "sg_pl", "sg_pr", [w[t] EXCEPT !.pl = left[w[t].p]])
    /\ NoStore

\* Lines 265-268 and 356-362: with two children the successor search starts
\* at p.right, else the replacement is the only child or p itself.
SgLoadRight(t) ==
    /\ pc[t] = "sg_pr"
    /\ LET pr == right[w[t].p]
           pl == w[t].pl
       IN  IF pl # NULL /\ pr # NULL
           THEN WStep(t, "sg_pr", "sg_succ", [w[t] EXCEPT !.pr = pr, !.succ = pr])
           ELSE WStep(t, "sg_pr", "sg_repl",
                      [w[t] EXCEPT !.pr = pr,
                                   !.repl = IF pl # NULL THEN pl
                                            ELSE IF pr # NULL THEN pr
                                            ELSE w[t].p])
    /\ NoStore

\* Lines 270-276: one load of succ.left.
SgSuccessor(t) ==
    /\ pc[t] = "sg_succ"
    /\ IF left[w[t].succ] # NULL
       THEN WStep(t, "sg_succ", "sg_succ", [w[t] EXCEPT !.succ = left[w[t].succ]])
       ELSE WStep(t, "sg_succ", "sg_color", w[t])
    /\ NoStore

\* Line 278.
SgLoadColor(t) ==
    /\ pc[t] = "sg_color"
    /\ WStep(t, "sg_color", "sg_sred", [w[t] EXCEPT !.color = red[w[t].succ]])
    /\ NoStore

\* Lines 279-281.
SgStoreSuccRed(t) ==
    /\ pc[t] = "sg_sred"
    /\ WStep(t, "sg_sred", "sg_pred", w[t])
    /\ Mem("red", w[t].succ, red[w[t].p])

\* Line 283.
SgStorePRed(t) ==
    /\ pc[t] = "sg_pred"
    /\ WStep(t, "sg_pred", "sg_sr", w[t])
    /\ Mem("red", w[t].p, w[t].color)

\* Line 285.
SgLoadSuccRight(t) ==
    /\ pc[t] = "sg_sr"
    /\ WStep(t, "sg_sr", "sg_pp", [w[t] EXCEPT !.sr = right[w[t].succ]])
    /\ NoStore

\* Lines 286-288.
SgLoadPParent(t) ==
    /\ pc[t] = "sg_pp"
    /\ WStep(t, "sg_pp", IF w[t].succ = w[t].pr THEN "sg_a1" ELSE "sg_b1",
             [w[t] EXCEPT !.pp = parent[w[t].p]])
    /\ NoStore

\* Line 289: the successor is p's right child.
SgAdjParent(t) ==
    /\ pc[t] = "sg_a1"
    /\ WStep(t, "sg_a1", "sg_a2", w[t])
    /\ Mem("parent", w[t].p, w[t].succ)

\* Line 290.
SgAdjRight(t) ==
    /\ pc[t] = "sg_a2"
    /\ WStep(t, "sg_a2", "sg_pleft", w[t])
    /\ Mem("right", w[t].succ, w[t].p)

\* Line 292: the successor lies deeper.
SgFarLoad(t) ==
    /\ pc[t] = "sg_b1"
    /\ WStep(t, "sg_b1", "sg_b2", [w[t] EXCEPT !.sp = parent[w[t].succ]])
    /\ NoStore

\* Line 293.
SgFarParent(t) ==
    /\ pc[t] = "sg_b2"
    /\ WStep(t, "sg_b2", "sg_b3", w[t])
    /\ Mem("parent", w[t].p, w[t].sp)

\* Lines 294-308.
SgFarChild(t) ==
    /\ pc[t] = "sg_b3"
    /\ WStep(t, "sg_b3", "sg_b4", w[t])
    /\ IF w[t].sp = NULL THEN NoStore
       ELSE IF w[t].succ = left[w[t].sp] THEN Mem("left", w[t].sp, w[t].p)
       ELSE Mem("right", w[t].sp, w[t].p)

\* Line 309.
SgFarRight(t) ==
    /\ pc[t] = "sg_b4"
    /\ WStep(t, "sg_b4", "sg_b5", w[t])
    /\ Mem("right", w[t].succ, w[t].pr)

\* Lines 311-315.
SgFarRightParent(t) ==
    /\ pc[t] = "sg_b5"
    /\ WStep(t, "sg_b5", "sg_pleft", w[t])
    /\ IF w[t].pr # NULL THEN Mem("parent", w[t].pr, w[t].succ) ELSE NoStore

\* Line 317.
SgClearPLeft(t) ==
    /\ pc[t] = "sg_pleft"
    /\ WStep(t, "sg_pleft", "sg_pright", w[t])
    /\ Mem("left", w[t].p, NULL)

\* Line 318.
SgStorePRight(t) ==
    /\ pc[t] = "sg_pright"
    /\ WStep(t, "sg_pright", "sg_srpar", w[t])
    /\ Mem("right", w[t].p, w[t].sr)

\* Lines 320-324: with a successor's right child, the parent of p_left is
\* what the code stores.
SgSuccRightParent(t) ==
    /\ pc[t] = "sg_srpar"
    /\ WStep(t, "sg_srpar", "sg_sleft", w[t])
    /\ IF w[t].sr # NULL THEN Mem("parent", w[t].pl, w[t].succ) ELSE NoStore

\* Line 326.
SgStoreSuccLeft(t) ==
    /\ pc[t] = "sg_sleft"
    /\ WStep(t, "sg_sleft", "sg_plpar", w[t])
    /\ Mem("left", w[t].succ, w[t].pl)

\* Lines 327-331.
SgPLeftParent(t) ==
    /\ pc[t] = "sg_plpar"
    /\ WStep(t, "sg_plpar", "sg_spar", w[t])
    /\ IF w[t].pl # NULL THEN Mem("parent", w[t].pl, w[t].succ) ELSE NoStore

\* Line 333.
SgSuccParent(t) ==
    /\ pc[t] = "sg_spar"
    /\ WStep(t, "sg_spar", "sg_ppchild", w[t])
    /\ Mem("parent", w[t].succ, w[t].pp)

\* Lines 335-355: the successor takes p's place below p's old parent, and
\* the replacement is chosen.
SgParentChild(t) ==
    /\ pc[t] = "sg_ppchild"
    /\ WStep(t, "sg_ppchild", "sg_repl",
             [w[t] EXCEPT !.rt = IF w[t].pp = NULL THEN w[t].succ ELSE @,
                          !.repl = IF w[t].sr # NULL THEN w[t].sr ELSE w[t].p])
    /\ IF w[t].pp = NULL THEN NoStore
       ELSE IF w[t].p = left[w[t].pp] THEN Mem("left", w[t].pp, w[t].succ)
       ELSE Mem("right", w[t].pp, w[t].succ)

\* Lines 364-365.
SgReplLoad(t) ==
    /\ pc[t] = "sg_repl"
    /\ IF w[t].repl # w[t].p
       THEN WStep(t, "sg_repl", "sg_rpar", [w[t] EXCEPT !.pp = parent[w[t].p]])
       ELSE WStep(t, "sg_repl", "sg_bal", w[t])
    /\ NoStore

\* Lines 366-368.
SgReplParent(t) ==
    /\ pc[t] = "sg_rpar"
    /\ WStep(t, "sg_rpar", "sg_rchild", w[t])
    /\ Mem("parent", w[t].repl, w[t].pp)

\* Lines 370-380.
SgReplChild(t) ==
    /\ pc[t] = "sg_rchild"
    /\ WStep(t, "sg_rchild", "sg_pclr1",
             [w[t] EXCEPT !.rt = IF w[t].pp = NULL THEN w[t].repl ELSE @])
    /\ IF w[t].pp = NULL THEN NoStore
       ELSE IF w[t].p = left[w[t].pp] THEN Mem("left", w[t].pp, w[t].repl)
       ELSE Mem("right", w[t].pp, w[t].repl)

\* Line 382.
SgClearParent(t) ==
    /\ pc[t] = "sg_pclr1"
    /\ WStep(t, "sg_pclr1", "sg_pclr2", w[t])
    /\ Mem("parent", w[t].p, NULL)

\* Line 383.
SgClearLeft(t) ==
    /\ pc[t] = "sg_pclr2"
    /\ WStep(t, "sg_pclr2", "sg_pclr3", w[t])
    /\ Mem("left", w[t].p, NULL)

\* Line 384.
SgClearRight(t) ==
    /\ pc[t] = "sg_pclr3"
    /\ WStep(t, "sg_pclr3", "sg_bal", w[t])
    /\ Mem("right", w[t].p, NULL)

\* balance_deletion, tree_node.rs lines 304-310: its body is todo!(), which
\* panics; "aborted" is the thread unwinding with the lock still held.
BalanceDeletion == "aborted"

\* Lines 387-391: a red p needs no fixup, a black p calls balance_deletion.
SgBalance(t) ==
    /\ pc[t] = "sg_bal"
    /\ WStep(t, "sg_bal", IF red[w[t].p] THEN "sg_root" ELSE BalanceDeletion, w[t])
    /\ NoStore

\* Line 393.
SgStoreRoot(t) ==
    /\ pc[t] = "sg_root"
    /\ WStep(t, "sg_root", IF w[t].p = w[t].repl THEN "sg_det1" ELSE "unlock", w[t])
    /\ Mem("root", NULL, w[t].rt)

\* Lines 395-398.
SgDetachLoad(t) ==
    /\ pc[t] = "sg_det1"
    /\ WStep(t, "sg_det1", IF parent[w[t].p] # NULL THEN "sg_det2" ELSE "unlock",
             [w[t] EXCEPT !.pp = parent[w[t].p]])
    /\ NoStore

\* Lines 401-409 without the stores: the parent keeps p as its child.
SgDetachChildKeep(t) ==
    /\ pc[t] = "sg_det2"
    /\ WStep(t, "sg_det2", "sg_det3", w[t])
    /\ NoStore

\* Lines 401-409.
SgDetachChild(t) ==
    /\ pc[t] = "sg_det2"
    /\ WStep(t, "sg_det2", "sg_det3", w[t])
    /\ IF w[t].p = left[w[t].pp] THEN Mem("left", w[t].pp, NULL)
       ELSE IF w[t].p = right[w[t].pp] THEN Mem("right", w[t].pp, NULL)
       ELSE NoStore

\* Line 410.
SgDetachParent(t) ==
    /\ pc[t] = "sg_det3"
    /\ WStep(t, "sg_det3", "unlock", w[t])
    /\ Mem("parent", w[t].p, NULL)

\* What remove_tree_node returns after the surgery (line 423).
DoneResult == "false"

\* Lines 417-419, with the wrong test: the value is always handed over.
DropValueAlways(dropValue, n) == n + 1

\* Lines 417-419: the value is handed to defer_destroy when drop_value.
DropValue(dropValue, n) == IF dropValue THEN n + 1 ELSE n

\* Lines 416-423: p is handed to defer_destroy and the call returns.
RmDefer(t) ==
    /\ pc[t] = "rm_defer"
    /\ pc' = [pc EXCEPT ![t] = "rm_ret"]
    /\ w' = [w EXCEPT ![t] = [w[t] EXCEPT !.ret = DoneResult, !.why = "done"]]
    /\ retired' = [retired EXCEPT ![w[t].p] = @ + 1]
    /\ dropped' = [dropped EXCEPT ![w[t].p] = DropValue(w[t].drop, @)]
    /\ NoStore
    /\ UNCHANGED <<hash, key, npc, bin, x, visits, f, ops, token, called, skipped>>

\* The caller has the result; the thread is free for its next call.
RmReturn(t) ==
    /\ pc[t] = "rm_ret"
    /\ WStep(t, "rm_ret", "idle", W0)
    /\ NoStore

\* remove_tree_node after its call, up to lock_root.
RmAfterCall(t) ==
    \/ RmLoadNext(t) \/ RmLoadPrev(t) \/ RmUnlinkPrev(t) \/ RmUnlinkNext(t)
    \/ RmLoadFirst(t) \/ RmClearRoot(t) \/ RmLoadRoot(t) \/ RmSmall(t)
    \/ LockRoot(t)

\* remove_tree_node called on any node, up to lock_root.
RmUnlinkSteps(t) ==
    \/ \E p \in Nodes : RmCall(t, p)
    \/ RmAfterCall(t)

\* remove_tree_node from the lock to its return.
RmSurgerySteps(t) ==
    \/ SgLoadLeft(t) \/ SgLoadRight(t) \/ SgSuccessor(t) \/ SgLoadColor(t)
    \/ SgStoreSuccRed(t) \/ SgStorePRed(t) \/ SgLoadSuccRight(t)
    \/ SgLoadPParent(t) \/ SgAdjParent(t) \/ SgAdjRight(t) \/ SgFarLoad(t)
    \/ SgFarParent(t) \/ SgFarChild(t) \/ SgFarRight(t) \/ SgFarRightParent(t)
    \/ SgClearPLeft(t) \/ SgStorePRight(t) \/ SgSuccRightParent(t)
    \/ SgStoreSuccLeft(t) \/ SgPLeftParent(t) \/ SgSuccParent(t)
    \/ SgParentChild(t) \/ SgReplLoad(t) \/ SgReplParent(t) \/ SgReplChild(t)
    \/ SgClearParent(t) \/ SgClearLeft(t) \/ SgClearRight(t) \/ SgBalance(t)
    \/ SgStoreRoot(t) \/ SgDetachLoad(t) \/ SgDetachChild(t)
    \/ SgDetachParent(t) \/ UnlockRoot(t) \/ RmDefer(t) \/ RmReturn(t)

\* contended_lock, the branch that takes the lock (lines 120-139).
ContendedAcquire(t) == CLLoad(t) \/ CLCasWriter(t)

\* contended_lock, the branches of a thread that registers as the waiter
\* (lines 133-137 and 140-158).
ContendedWait(t) ==
    \/ CLSwapNull(t) \/ CLCasWaiter(t) \/ CLSwapMe(t) \/ CLPark(t)
    \/ CLParkSpurious(t)

ContendedSteps(t) == ContendedAcquire(t) \/ ContendedWait(t)

\* ------------------------------------- one thread calling remove_tree_node

\* Every bin of up to MaxNodes nodes, in every list order; thread w1 removes
\* nodes one call after the other, with drop_value true or false.
InitSeq ==
    /\ \E n \in 1..MaxNodes : \E t \in Trees(n) : \E s \in Orders(n) : BinIs(t, s)
    /\ lock_state = StNone
    /\ ops = [t \in Threads |-> IF t = "w1" THEN MaxNodes ELSE 0]

NextSeq ==
    \/ RmUnlinkSteps("w1")
    \/ \E p \in Nodes : RmCallKeepValue("w1", p)
    \/ RmSurgerySteps("w1")

SpecSeq == InitSeq /\ [][NextSeq]_vars

\* The same bins; thread w1 may also call remove_tree_node again on a node
\* an earlier call of its own was made on.
NextStale ==
    \/ RmUnlinkSteps("w1")
    \/ \E p \in Nodes : RmCallAgain("w1", p)
    \/ RmSurgerySteps("w1")

SpecStale == InitSeq /\ [][NextStale]_vars

\* ------------------------------------------------------------ find

\* The hashes and keys find is asked for: those of the nodes and some of
\* no node.
Hashes == 0..((MaxNodes + 1) \div 2) + 1

Keys == 0..(MaxNodes + 1)

\* A step of thread t inside find, with its locals becoming ft.
FStep(t, from, to, ft) ==
    /\ pc[t] = from
    /\ pc' = [pc EXCEPT ![t] = to]
    /\ f' = [f EXCEPT ![t] = ft]
    /\ UNCHANGED <<hash, key, npc, bin, x, visits, w, ops, called, skipped, retired,
                 dropped>>

\* Every removing thread has made its calls and returned from the last.
Finished == \A u \in Writers : pc[u] = "idle" /\ ops[u] = 0

FindCall(t, h, k) ==
    /\ pc[t] = "idle" /\ npc = "done" /\ ops[t] > 0
    /\ pc' = [pc EXCEPT ![t] = "f_first"]
    /\ f' = [f EXCEPT ![t] = [F0 EXCEPT !.h = h, !.k = k, !.quiet = Finished]]
    /\ ops' = [ops EXCEPT ![t] = @ - 1]
    /\ NoStore
    /\ UNCHANGED <<hash, key, npc, bin, x, visits, w, token, called, skipped, retired,
                 dropped>>

\* Line 174.
FindLoadFirst(t) ==
    /\ FStep(t, "f_first", "f_loop", [f[t] EXCEPT !.e = first])
    /\ NoStore /\ UNCHANGED token

\* Line 177: the list is walked while this holds of the state loaded.
FastPath(s) == BitAnd(s, BitOr(StWaiter, StWriter)) = 0

\* Lines 175-177 (and 217 when the list is exhausted).
FindLoop(t) ==
    /\ pc[t] = "f_loop"
    /\ IF f[t].e = NULL
       THEN FStep(t, "f_loop", "f_ret", [f[t] EXCEPT !.res = NULL, !.path = "list"])
       ELSE FStep(t, "f_loop", IF FastPath(lock_state) THEN "f_fast" ELSE "f_cas",
                  [f[t] EXCEPT !.s = lock_state])
    /\ NoStore /\ UNCHANGED token

\* Lines 178-185.
FindFast(t) ==
    /\ pc[t] = "f_fast"
    /\ IF hash[f[t].e] = f[t].h /\ key[f[t].e] = f[t].k
       THEN FStep(t, "f_fast", "f_ret", [f[t] EXCEPT !.res = f[t].e, !.path = "list"])
       ELSE FStep(t, "f_fast", "f_loop", [f[t] EXCEPT !.e = next[f[t].e]])
    /\ NoStore /\ UNCHANGED token

\* Lines 186-195: the reader count goes up by one unit.
FindCas(t) ==
    /\ pc[t] = "f_cas"
    /\ IF lock_state = f[t].s
       THEN /\ FStep(t, "f_cas", "f_root", f[t])
            /\ Mem("lock_state", NULL, f[t].s + StReader)
       ELSE /\ FStep(t, "f_cas", "f_loop", f[t])
            /\ NoStore
    /\ UNCHANGED token

\* Lines 196-201.
FindLoadRoot(t) ==
    /\ pc[t] = "f_root"
    /\ IF root = NULL
       THEN FStep(t, "f_root", "f_dec", [f[t] EXCEPT !.res = NULL, !.path = "tree"])
       ELSE FStep(t, "f_root", "f_tree", [f[t] EXCEPT !.cur = root, !.path = "tree"])
    /\ NoStore /\ UNCHANGED token

\* find_tree_node, tree_node.rs lines 51-70 and 86: the hash decides, then
\* the key when the hashes are equal.
TreeVisit(t) ==
    /\ pc[t] = "f_tree"
    /\ IF f[t].cur = NULL
       THEN FStep(t, "f_tree", "f_dec", [f[t] EXCEPT !.res = NULL])
       ELSE IF hash[f[t].cur] > f[t].h
       THEN FStep(t, "f_tree", "f_tree", [f[t] EXCEPT !.cur = left[f[t].cur]])
       ELSE IF hash[f[t].cur] < f[t].h
       THEN FStep(t, "f_tree", "f_tree", [f[t] EXCEPT !.cur = right[f[t].cur]])
       ELSE IF key[f[t].cur] = f[t].k
       THEN FStep(t, "f_tree", "f_dec", [f[t] EXCEPT !.res = f[t].cur])
       ELSE FStep(t, "f_tree", "f_tree_l", f[t])
    /\ NoStore /\ UNCHANGED token

\* tree_node.rs line 72.
TreeLoadLeft(t) ==
    /\ FStep(t, "f_tree_l", "f_tree_r", [f[t] EXCEPT !.pl = left[f[t].cur]])
    /\ NoStore /\ UNCHANGED token

\* A descent that always goes left on an equal hash.
TreeChooseLeft(pl, pr, kc, k) == pl

\* A descent that follows the key order even when one child is missing.
TreeChooseByKey(pl, pr, kc, k) == IF kc > k THEN pl ELSE pr

\* tree_node.rs lines 75-84: the only child, or the child the key order
\* names (pl, pr are the children loaded, c the node, k the key sought).
TreeChoose(pl, pr, kc, k) ==
    IF pl = NULL \/ pr = NULL THEN (IF pl = NULL THEN pr ELSE pl)
    ELSE IF kc > k THEN pl
    ELSE pr

\* tree_node.rs lines 73-84.
TreeLoadRight(t) ==
    /\ FStep(t, "f_tree_r", "f_tree",
             [f[t] EXCEPT !.cur = TreeChoose(f[t].pl, right[f[t].cur],
                                             key[f[t].cur], f[t].k),
                          !.pl = NULL])
    /\ NoStore /\ UNCHANGED token

\* Lines 205-206: the value fetch_add returns for which find unparks.
UnparkOn == BitOr(StReader, StWriter)

\* Lines 203-207: the reader count goes down by one unit.
FindDec(t) ==
    /\ FStep(t, "f_dec", IF lock_state = UnparkOn THEN "f_unpark" ELSE "f_ret",
             [f[t] EXCEPT !.cur = NULL])
    /\ Mem("lock_state", NULL, lock_state - StReader)
    /\ UNCHANGED token

\* Lines 208-213.
FindUnpark(t) ==
    /\ FStep(t, "f_unpark", "f_ret", f[t])
    /\ token' = IF waiter # NoThread THEN [token EXCEPT ![waiter] = TRUE] ELSE token
    /\ NoStore

\* Lines 182, 214, 217: the caller has the result.
FindReturn(t) ==
    /\ FStep(t, "f_ret", "idle", F0)
    /\ NoStore /\ UNCHANGED token

\* find after its call.
FindAfterCall(t) ==
    \/ FindLoadFirst(t) \/ FindLoop(t) \/ FindFast(t) \/ FindCas(t)
    \/ FindLoadRoot(t) \/ TreeVisit(t) \/ TreeLoadLeft(t) \/ TreeLoadRight(t)
    \/ FindDec(t) \/ FindUnpark(t) \/ FindReturn(t)

\* find called for any hash and key.
FindSteps(t) ==
    \/ \E h \in Hashes, k \in Keys : FindCall(t, h, k)
    \/ FindAfterCall(t)

\* ------------------------------------------- find on a bin nobody changes

\* The lock states a test forces to steer find: none, WAITER, WRITER.
Forced == {StNone, StWaiter, StWriter}

InitFind ==
    /\ \E n \in 1..MaxNodes : \E t \in Trees(n) : \E s \in Orders(n) : BinIs(t, s)
    /\ lock_state \in Forced
    /\ ops = [t \in Threads |-> IF t = "r1" THEN 1 ELSE 0]

NextFind == FindSteps("r1")

SpecFind == InitFind /\ [][NextFind]_vars

\* ------------------------------------- one remover and one finder

\* Calls the removing thread makes at most.
WriterCalls == 2

\* Calls the finding thread makes at most.
ReaderCalls == 2

\* find called for the hash and key of node n.
FindNode(t, n) == FindCall(t, hash[n], key[n])

\* Every bin of up to MaxNodes nodes, listed in ascending order; w1 calls
\* remove_tree_node while r1 calls find for the keys of the nodes.  With one
\* finder lock_state stays within {-2, 0, 1, 3, 5}, so contended_lock
\* never registers a waiter.
InitRW ==
    /\ \E n \in 1..MaxNodes : \E t \in Trees(n) : BinIs(t, [i \in 1..n |-> i])
    /\ lock_state = StNone
    /\ ops = [t \in Threads |->
                IF t = "w1" THEN WriterCalls
                ELSE IF t = "r1" THEN ReaderCalls ELSE 0]

NextRW ==
    \/ RmUnlinkSteps("w1")
    \/ RmSurgerySteps("w1")
    \/ ContendedAcquire("w1")
    \/ \E n \in Nodes : FindNode("r1", n)
    \/ FindAfterCall("r1")

SpecRW == InitRW /\ [][NextRW]_vars

\* A thread inside remove_tree_node, lock_root or contended_lock goes on.
WriterRuns(t) == RmAfterCall(t) \/ RmSurgerySteps(t) \/ ContendedAcquire(t)

\* One remover and one finder, each scheduled again and again while it is
\* inside a call.
FairSpecRW ==
    /\ InitRW /\ [][NextRW]_vars
    /\ WF_vars(WriterRuns("w1"))
    /\ WF_vars(FindAfterCall("r1"))

\* ------------------------------------- two removers and one finder

\* The nodes each removing thread is given to remove.
Owned(t) == {n \in Nodes : n % 2 = (IF t = "w1" THEN 1 ELSE 0)}

\* The bin of MaxNodes nodes whose largest node has a left child, so that a
\* successor is found both next to p and further down, and the bin of one
\* node; w1 and w2 remove their own nodes while r1 looks up the last node.
\* With one finder lock_state stays within {-2, 0, 1, 3, 5}, so
\* contended_lock never registers a waiter.
Init ==
    /\ \E t \in Trees(1) \cup {u \in Trees(MaxNodes) : u.left[MaxNodes] # NULL} :
          BinIs(t, [i \in DOMAIN t.left |-> i])
    /\ lock_state = StNone
    /\ ops = [t \in Threads |->
                IF t = "w1" THEN WriterCalls
                ELSE IF t = "w2" THEN WriterCalls - 1
                ELSE IF t = "r1" THEN ReaderCalls - 1 ELSE 0]

Next ==
    \/ \E t \in Writers :
          \/ \E p \in Owned(t) : RmCall(t, p)
          \/ RmAfterCall(t)
          \/ RmSurgerySteps(t)
          \/ ContendedAcquire(t)
    \/ FindNode("r1", MaxNodes)
    \/ FindAfterCall("r1")

Spec == Init /\ [][Next]_vars

\* ------------------------------------- two removers and two finders

\* The surgery of a p with at most one child: lines 263-268 and 356-412
\* without the successor splice of lines 269-355.
RmSurgeryOneChild(t) ==
    \/ SgLoadLeft(t) \/ SgLoadRight(t) \/ SgReplLoad(t) \/ SgReplParent(t)
    \/ SgReplChild(t) \/ SgClearParent(t) \/ SgClearLeft(t) \/ SgClearRight(t)
    \/ SgBalance(t) \/ SgStoreRoot(t) \/ SgDetachLoad(t) \/ SgDetachChild(t)
    \/ SgDetachParent(t) \/ UnlockRoot(t) \/ RmDefer(t) \/ RmReturn(t)

\* find after its call on a bin where no two nodes of the tree share the
\* sought hash with another key on the way: find_tree_node never reaches
\* tree_node.rs lines 72-84.
FindAfterCallPlain(t) ==
    \/ FindLoadFirst(t) \/ FindLoop(t) \/ FindFast(t) \/ FindCas(t)
    \/ FindLoadRoot(t) \/ TreeVisit(t) \/ FindDec(t) \/ FindUnpark(t)
    \/ FindReturn(t)

\* The bin root 2 (black) with red children 1 and 3, listed 1,2,3; w1
\* removes node 1 while r1 and r2 each look up node 2.
InitStraddle ==
    /\ \E t \in {u \in Trees(3) : u.red[1]} : BinIs(t, [i \in 1..3 |-> i])
    /\ lock_state = StNone
    /\ ops = [t \in Threads |-> IF t = "w2" THEN 0 ELSE 1]

NextStraddle ==
    \/ RmCall("w1", 1)
    \/ RmAfterCall("w1")
    \/ RmSurgeryOneChild("w1")
    \/ ContendedSteps("w1")
    \/ \E r \in Readers : FindNode(r, 2) \/ FindAfterCallPlain(r)

SpecStraddle == InitStraddle /\ [][NextStraddle]_vars

\* Where SpecStraddle leaves the bin when both finders entered the tree
\* while w1 held the lock and left it after unlock_root stored 0: node 1 is
\* removed and retired, every thread has returned and lock_state is -4.
Straddled ==
    /\ hash = PairedHash /\ key = OwnKey
    /\ root = 2 /\ first = 2 /\ bin = 1
    /\ parent = [n \in Nodes |-> IF n = 3 THEN 2 ELSE NULL]
    /\ left = NoLinks
    /\ right = [n \in Nodes |-> IF n = 2 THEN 3 ELSE NULL]
    /\ red = [n \in Nodes |-> n \in {1, 3}]
    /\ next = [n \in Nodes |-> IF n < 3 THEN n + 1 ELSE NULL]
    /\ prev = [n \in Nodes |-> IF n = 3 THEN 2 ELSE NULL]
    /\ waiter = NoThread
    /\ lock_state = StNone - 2 * StReader
    /\ npc = "done" /\ x = NULL
    /\ visits = [n \in Nodes |-> 0]
    /\ pc = [t \in Threads |-> "idle"]
    /\ w = [t \in Writers |-> W0]
    /\ f = [t \in Readers |-> F0]
    /\ token = [t \in Threads |-> FALSE]
    /\ called = {1}
    /\ skipped = {}
    /\ retired = [n \in Nodes |-> IF n = 1 THEN 1 ELSE 0]
    /\ dropped = [n \in Nodes |-> IF n = 1 THEN 1 ELSE 0]

\* SpecStraddle reaches Straddled: this invariant of it is violated.
NeverStraddled == ~(Straddled /\ ops = [t \in Threads |-> 0])

\* The run goes on from Straddled: w1 removes node 3, w2 removes node 2 and
\* r1 and r2 each look up node 2 once more.  Here contended_lock registers
\* a waiter.  No p has two children and no find meets a second key of its
\* hash, so the steps left out of NextLock are never enabled.
InitLock == Straddled /\ ops = [t \in Threads |-> 1]

NextLock ==
    \/ \E t \in Writers :
          \/ \E p \in Owned(t) : RmCall(t, p)
          \/ RmAfterCall(t)
          \/ RmSurgeryOneChild(t)
          \/ ContendedSteps(t)
    \/ \E r \in Readers : FindNode(r, 2) \/ FindAfterCallPlain(r)

SpecLock == InitLock /\ [][NextLock]_vars

\* Of SpecStraddle and SpecLock: no thread reaches a step that NextStraddle
\* and NextLock leave out.
PlainStepsOnly ==
    \A t \in Threads : pc[t] \notin {"sg_succ", "f_tree_l", "f_tree_r"}

\* ------------------------------------------- balance_insertion, turn by turn

\* The nodes that are in no tree yet.
Unlinked == {n \in Nodes : n # root /\ parent[n] = NULL}

\* A red-black tree of fewer than MaxNodes nodes and the nodes still to be
\* inserted into it.
InitInsert ==
    /\ \E n \in 1..(MaxNodes - 1) : \E t \in Trees(n) : BinIs(t, [i \in 1..n |-> i])
    /\ lock_state = StNone
    /\ ops = [t \in Threads |-> 0]

\* A new node linked as a leaf into a free child slot (as tree_bin.rs lines
\* 71-81 do) and handed to balance_insertion, which makes it red (line 99).
InsLink(xp, c) ==
    /\ npc = "done" /\ Unlinked # {}
    /\ xp \in TreeNodes
    /\ (IF c = "Greater" THEN left[xp] ELSE right[xp]) = NULL
    /\ x' = CHOOSE n \in Unlinked : \A m \in Unlinked : n <= m
    /\ NewInsertTo([h |-> SetRed(LinkChild(Heap, x', xp, c), x', TRUE),
                    root |-> root])
    /\ npc' = "balance"
    /\ UNCHANGED <<hash, key, next, prev, first, waiter, lock_state, bin, visits>>
    /\ UNCHANGED threadVars

\* Lines 111-114: x has no parent; it is made black and returned as root.
InsReturnX ==
    /\ npc = "balance" /\ parent[x] = NULL
    /\ red' = [red EXCEPT ![x] = FALSE]
    /\ root' = x
    /\ npc' = "done" /\ x' = NULL
    /\ UNCHANGED <<hash, key, next, prev, parent, left, right, first, waiter,
                   lock_state, bin, visits>>
    /\ UNCHANGED threadVars

\* Lines 116-122: x's parent is black or is the root; root is returned.
InsReturnRoot ==
    /\ npc = "balance" /\ parent[x] # NULL
    /\ red[parent[x]] = FALSE \/ parent[parent[x]] = NULL
    /\ npc' = "done" /\ x' = NULL
    /\ UNCHANGED <<hash, key, nodeVars, root, first, waiter, lock_state, bin,
                   visits>>
    /\ UNCHANGED threadVars

\* Lines 124-205: one turn of the loop past its returns.
InsTurnTo(b) == NewInsertTo(b) /\ x' = b.x

InsTurn ==
    /\ npc = "balance" /\ parent[x] # NULL
    /\ red[parent[x]] /\ parent[parent[x]] # NULL
    /\ InsTurnTo(BalanceStep(Heap, root, x, parent[x], parent[parent[x]]))
    /\ npc' = "balance"
    /\ UNCHANGED <<hash, key, next, prev, first, waiter, lock_state, bin, visits>>
    /\ UNCHANGED threadVars

NextInsert ==
    \/ \E xp \in Nodes : \E c \in {"Greater", "Less"} : InsLink(xp, c)
    \/ InsReturnX
    \/ InsReturnRoot
    \/ InsTurn

SpecInsert == InitInsert /\ [][NextInsert]_vars

\* ------------------------------------------- rotate_left and rotate_right

\* Every red-black tree of up to MaxNodes nodes; rotations are then called
\* on any node of the tree they left, so every shape is rotated.
InitRotate ==
    /\ \E n \in 1..MaxNodes : \E t \in Trees(n) : BinIs(t, [i \in 1..n |-> i])
    /\ lock_state = StNone
    /\ ops = [t \in Threads |-> 0]

\* A call's result stored; x and npc keep the call's argument and name.
RotateTo(b, p, call) ==
    /\ NewInsertTo(b)
    /\ x' = p
    /\ npc' = call
    /\ UNCHANGED <<hash, key, next, prev, first, waiter, lock_state, bin, visits>>
    /\ UNCHANGED threadVars

RotateLeftCall(p) ==
    /\ p \in TreeNodes
    /\ RotateTo(RotateLeft(Heap, root, p), p, "rotate_left")

RotateRightCall(p) ==
    /\ p \in TreeNodes
    /\ RotateTo(RotateRight(Heap, root, p), p, "rotate_right")

NextRotate == \E p \in Nodes : RotateLeftCall(p) \/ RotateRightCall(p)

SpecRotate == InitRotate /\ [][NextRotate]_vars

\* ------------------------------------------------------------ properties

\* Thread t is between a successful return of lock_root and its unlock_root.
Holding(t) ==
    pc[t] \in {"sg_pl", "sg_pr", "sg_succ", "sg_color", "sg_sred", "sg_pred",
               "sg_sr", "sg_pp", "sg_a1", "sg_a2", "sg_b1", "sg_b2", "sg_b3",
               "sg_b4", "sg_b5", "sg_pleft", "sg_pright", "sg_srpar",
               "sg_sleft", "sg_plpar", "sg_spar", "sg_ppchild", "sg_repl",
               "sg_rpar", "sg_rchild", "sg_pclr1", "sg_pclr2", "sg_pclr3",
               "sg_bal", "sg_root", "sg_det1", "sg_det2", "sg_det3", "unlock"}

\* Thread t is inside the tree descent of find: its READER increment is
\* done, its READER decrement is not.
Descending(t) == pc[t] \in {"f_root", "f_tree", "f_tree_l", "f_tree_r", "f_dec"}

\* The node holding hash h and key k among the nodes ns, NULL when none does.
NodeOf(h, k, ns) ==
    IF \E n \in ns : hash[n] = h /\ key[n] = k
    THEN CHOOSE n \in ns : hash[n] = h /\ key[n] = k
    ELSE NULL

\* The chain handed to TreeBin::new has pairwise distinct (hash, key).
DistinctInput == \A a, b \in Nodes : (hash[a] = hash[b] /\ key[a] = key[b]) => a = b

\* The chain handed to TreeBin::new, in its order.
InputSeq == Walk(next, bin, MaxNodes + 1)

\* C1: writer mutual exclusion.  Under every interleaving of threads calling
\* remove_tree_node and find, at most one thread is between a successful
\* lock_root and its matching unlock_root.
WriterMutualExclusion ==
    \A a, b \in Writers : (Holding(a) /\ Holding(b)) => a = b

\* C2: reader/writer exclusion.  No thread is inside the tree descent of
\* find (between its READER increment and decrement) while another thread is
\* between lock_root and unlock_root.
ReaderWriterExclusion ==
    \A r \in Readers, t \in Writers : ~(Descending(r) /\ Holding(t))

\* C3: TreeBin::new on a non-empty chain of distinct (hash, key) returns a
\* tree that is red-black: black root, no red node with a red child, equal
\* black counts on all paths from the root to a null child.
NewBuildsRedBlack ==
    DistinctInput => <>(npc = "done" /\ RedBlack(left, right, red, root))

\* C4: TreeBin::new terminates for every chain, having walked it once: each
\* node is processed exactly once and the constructor returns.
NewWalksOnce ==
    /\ [](\A n \in Nodes : visits[n] <= 1)
    /\ DistinctInput =>
          <>(npc = "done" /\ \A n \in Range(InputSeq) : visits[n] = 1)

\* C5: search on a bin nobody changes.  find(hash, key) returns the node with
\* exactly that hash and key when the bin holds it and null when it does
\* not, whether lock_state forces the list walk or the tree descent.
SearchCorrect ==
    pc["r1"] = "f_ret" =>
        f["r1"].res = NodeOf(f["r1"].h, f["r1"].k, ListNodes)

\* A find that went down the tree and found its node, and the bin holds
\* another node of the same hash.
SearchCorrectWitness ==
    /\ pc["r1"] = "f_ret" /\ f["r1"].path = "tree" /\ f["r1"].res # NULL
    /\ f["r1"].res # root
    /\ \E n \in ListNodes : n # f["r1"].res /\ hash[n] = f["r1"].h

SurgeryRestoresRedBlack ==
    w["w1"].rb =>
        /\ pc["w1"] # "aborted"
        /\ (pc["w1"] = "rm_ret" /\ w["w1"].why = "done") =>
              /\ TreeNodes = w["w1"].pre \ {w["w1"].p}
              /\ RedBlack(left, right, red, root)

\* C9: TreeBin::new on a chain of distinct (hash, key) returns with every
\* chain node reachable from root, the in-order traversal ascending in
\* (hash, key), first the chain head and the list in the input order.
NewBuildsSearchTree ==
    DistinctInput =>
        <>(/\ npc = "done"
           /\ TreeNodes = Range(InputSeq)
           /\ Ascending(InOrder(left, right, root, MaxNodes + 1))
           /\ first = bin
           /\ ListSeq = InputSeq)

\* C10: with one thread removing, a find for a key no call was made on
\* returns that key's node, at whatever step of a removal it runs; and a
\* find made after the remover finished returns null for every removed key
\* and the node of every retained key.
FindDuringRemoval ==
    \A r \in Readers :
        pc[r] = "f_ret" =>
            /\ NodeOf(f[r].h, f[r].k, (ListNodes \cup TreeNodes) \ called) # NULL =>
                  f[r].res = NodeOf(f[r].h, f[r].k, ListNodes \ called)
            /\ f[r].quiet =>
                  f[r].res = NodeOf(f[r].h, f[r].k, ListNodes)

\* The lock_state value that stands for a writer holding or not, a waiter
\* registered or not and n readers inside (state.rs lines 3-8).
Encode(writer, waiting, n) ==
    (IF writer THEN StWriter ELSE StNone)
        + (IF waiting THEN StWaiter ELSE StNone) + n * StReader

Decodings(s) ==
    {c \in BOOLEAN \X BOOLEAN \X (0 .. Cardinality(Readers)) :
        Encode(c[1], c[2], c[3]) = s}

\* C13: lock-state encoding.  The Writer bit, the Waiter bit and the Reader
\* unit do not overlap, so every lock_state a run reaches is the encoding of
\* exactly one combination of (writer held, waiter present, reader count).
LockStateDecodes == Cardinality(Decodings(lock_state)) = 1

\* C14: every store remove_tree_node makes to root, first, next, prev,
\* parent, left, right or red is made by a thread that holds the writer lock
\* (it is between lock_root's return and unlock_root and the Writer bit is
\* set), so the list is never relinked without a lock_state change.
StoresUnderLock ==
    [][\A t \in Writers :
          (/\ pc'[t] # pc[t]
           /\ <<root, first, next, prev, parent, left, right, red>>'
                 # <<root, first, next, prev, parent, left, right, red>>)
              => /\ Holding(t)
                 /\ BitAnd(lock_state, StWriter) # 0]_vars

StaleRemovalHarmless ==
    (pc["w1"] = "rm_ret" /\ w["w1"].stale) =>
        /\ ListNodes = w["w1"].lst
        /\ TreeNodes \ called = w["w1"].pre \ called
        /\ TreeNodes \cap called \subseteq w["w1"].pre

\* The sibling of x's parent.
Uncle(xx) ==
    IF left[parent[parent[xx]]] = parent[xx]
    THEN right[parent[parent[xx]]]
    ELSE left[parent[parent[xx]]]

\* x's parent is red and has a red sibling.
RedUncleCase ==
    /\ npc = "balance" /\ parent[x] # NULL /\ parent[parent[x]] # NULL
    /\ red[parent[x]]
    /\ Uncle(x) # NULL /\ red[Uncle(x)]

\* C17: in the red-uncle case a turn of balance_insertion makes the parent
\* and the uncle black and the grandparent red, rotates nothing and goes on
\* from the grandparent, whether the parent is a left or a right child.
RedUncleRecolours ==
    [][RedUncleCase =>
          /\ red' = [red EXCEPT ![parent[x]] = FALSE, ![Uncle(x)] = FALSE,
                                ![parent[parent[x]]] = TRUE]
          /\ UNCHANGED <<parent, left, right, root>>
          /\ x' = parent[parent[x]]
          /\ npc' = "balance"]_vars

\* Every child points back to its parent and the root has none.
ParentsConsistent ==
    /\ root # NULL /\ parent[root] = NULL
    /\ \A n \in TreeNodes :
          /\ left[n] # NULL => parent[left[n]] = n
          /\ right[n] # NULL => parent[right[n]] = n

\* C18: rotate_left and rotate_right keep the set of nodes and the in-order
\* sequence of the tree, leave every parent pointer consistent with the
\* child pointers, return as root the node whose parent is null, and leave
\* the promoted node black when it became the root.
RotationPreserves ==
    [][/\ TreeNodes' = TreeNodes
       /\ InOrder(left, right, root, MaxNodes + 1)'
             = InOrder(left, right, root, MaxNodes + 1)
       /\ ParentsConsistent'
       /\ root' # root => ~red'[root']
       /\ root' # root <=> (parent[x'] = NULL /\ parent'[x'] # NULL)]_vars

\* rotate_left was called on the root, which had a right child with a left
\* child: the root is now the left child of the black new root and has the
\* grandchild as its right child.
RotationWitness ==
    /\ npc = "rotate_left"
    /\ x # NULL /\ right[x] # NULL
    /\ parent[x] = root /\ left[root] = x
    /\ ~red[root]
    /\ Cardinality(TreeNodes) = MaxNodes

\* C19: find_tree_node on a tree ordered by (hash, key) returns the node with
\* the sought hash and key when the start node reaches it and null when not;
\* at a node of the sought hash and another key it goes into the only child
\* when one child is null, whatever the key order, and follows the key order
\* only when both children exist.
FindTreeNodeCorrect ==
    /\ [](\A r \in Readers :
             (pc[r] = "f_dec" /\ f[r].path = "tree") =>
                 f[r].res = NodeOf(f[r].h, f[r].k, TreeNodes))
    /\ [][\A r \in Readers :
             (pc[r] = "f_tree_r" /\ pc'[r] = "f_tree") =>
                 f'[r].cur =
                    (IF left[f[r].cur] = NULL THEN right[f[r].cur]
                     ELSE IF right[f[r].cur] = NULL THEN left[f[r].cur]
                     ELSE IF key[f[r].cur] > f[r].k THEN left[f[r].cur]
                     ELSE right[f[r].cur])]_vars

\* The descent met a node of the sought hash and a smaller key whose only
\* child is the left one, and went into it.
FindTreeNodeWitness ==
    /\ pc["r1"] = "f_tree" /\ f["r1"].path = "tree"
    /\ \E n \in TreeNodes :
          /\ hash[n] = f["r1"].h /\ key[n] < f["r1"].k
          /\ right[n] = NULL /\ left[n] # NULL
          /\ f["r1"].cur = left[n]

\* C11: writer progress.  Under fair scheduling, when no lock holder fails
\* to reach unlock_root and every find finishes, a thread that calls
\* lock_root comes to hold the writer lock.
WriterProgress ==
    (/\ [](\A u \in Writers : pc[u] # "aborted")
     /\ \A r \in Readers : []<>(pc[r] = "idle"))
        => \A t \in Writers : (pc[t] = "lock_root") ~> Holding(t)

\* C12: single waiter.  Whenever a thread stores itself into the waiter slot
\* the slot was empty, so the assertion of contended_lock holds under every
\* interleaving of threads calling lock_root, unlock_root and find.
SingleWaiter ==
    [][\A t \in Writers :
          (pc[t] = "cl_swap_me" /\ pc'[t] # "cl_swap_me") => waiter = NoThread]_vars

\* C20: reader hand-off.  A find whose decrement of the reader count leaves
\* a thread in the waiter slot and no other find inside the tree goes on to
\* unpark that thread; a decrement that leaves another find inside the tree
\* does not.
ReaderHandOff ==
    [][\A r \in Readers :
          (pc[r] = "f_dec" /\ pc'[r] # "f_dec") =>
              /\ (/\ waiter # NoThread
                  /\ \A q \in Readers \ {r} : ~Descending(q))
                     => pc'[r] = "f_unpark"
              /\ (\E q \in Readers \ {r} : Descending(q))
                     => pc'[r] # "f_unpark"]_vars

\* The list from first is doubly linked: the head has no predecessor, prev
\* of every successor is the node before it, and the walk ends.
DoublyLinked ==
    /\ Len(ListSeq) <= MaxNodes
    /\ first # NULL => prev[first] = NULL
    /\ \A n \in ListNodes : next[n] # NULL => prev[next[n]] = n

RECURSIVE Without(_, _)
\* Sequence s in its order, with the entries equal to n left out.
Without(s, n) ==
    IF s = <<>> THEN <<>>
    ELSE IF Head(s) = n THEN Without(Tail(s), n)
    ELSE <<Head(s)>> \o Without(Tail(s), n)

\* C21: remove_tree_node(p), with p a node of a bin whose list is doubly
\* linked, leaves the list from first as the list of before without p and
\* in the same order: the relinking of lines 230-237 takes p out and nothing
\* else, and no other step of the call changes what is listed or in which
\* order.  When the call returns the list is doubly linked (the head's prev
\* is null, n.next.prev = n for every listed n with a successor), and when
\* it is empty root is null.
UnlinkKeepsList ==
    [][/\ ListSeq' = IF pc["w1"] = "rm_unlink1"
                     THEN Without(ListSeq, w["w1"].p)
                     ELSE ListSeq
       /\ pc["w1"] = "idle" => DoublyLinked
       /\ pc'["w1"] = "rm_ret" =>
             /\ DoublyLinked'
             /\ w'["w1"].p \notin ListNodes'
             /\ first' = NULL => root' = NULL]_vars

\* A call on a node that had a predecessor and a successor, in a list of
\* MaxNodes nodes, has returned.
UnlinkKeepsListWitness ==
    /\ pc["w1"] = "rm_ret"
    /\ w["w1"].prv # NULL /\ w["w1"].nxt # NULL
    /\ next[w["w1"].prv] = w["w1"].nxt
    /\ Len(ListSeq) = MaxNodes - 1

\* Two nodes of the chain handed to TreeBin::new have the same hash and key.
DuplicateInput ==
    \E i, j \in 1..Len(InputSeq) :
        /\ i # j
        /\ hash[InputSeq[i]] = hash[InputSeq[j]]
        /\ key[InputSeq[i]] = key[InputSeq[j]]

\* C22: when the chain handed to TreeBin::new holds two nodes of equal hash
\* and equal key, the construction ends in the fatal failure of line 67 and
\* never returns a TreeBin.
DuplicateKeyIsFatal ==
    DuplicateInput => ([](npc # "done") /\ <>(npc = "panic"))

\* Thread r is in the fallback section of find (lines 186-213).
InsideFallback(r) ==
    pc[r] \in {"f_cas", "f_root", "f_tree", "f_tree_l", "f_tree_r", "f_dec",
               "f_unpark"}

\* Thread t is inside contended_lock (lines 116-160).
InsideContended(t) ==
    pc[t] \in {"cl_load", "cl_cas_w", "cl_swap_null", "cl_cas_wait",
               "cl_swap_me", "cl_park"}

\* C23: reader accounting.  In every reachable state lock_state is not
\* negative, its reader component is the number of threads between the
\* READER increment and the READER decrement of find, and lock_state is 0
\* when no thread is in find's fallback section, in contended_lock or
\* holding the writer lock (a thread that failed inside its call keeps what
\* it held).
ReaderAccounting ==
    /\ lock_state >= 0
    /\ \E c \in Decodings(lock_state) :
          c[3] = Cardinality({r \in Readers : Descending(r)})
    /\ (/\ \A r \in Readers : ~InsideFallback(r)
        /\ \A t \in Writers :
              ~InsideContended(t) /\ ~Holding(t) /\ pc[t] # "aborted")
           => lock_state = StNone

\* C24: tree link consistency.  At every point where TreeBin::new has
\* returned and no remove_tree_node call is running or holds the lock,
\* root's parent is null, every node reachable from root is the parent of
\* its left and of its right child, and every node p that a call took out
\* by tree surgery is not reachable from root and is not the parent, left
\* or right of any reachable node.
TreeLinksConsistent ==
    (npc = "done" /\ pc["w1"] \in {"idle", "rm_ret"}) =>
        /\ root # NULL => parent[root] = NULL
        /\ \A n \in TreeNodes :
              /\ left[n] # NULL => parent[left[n]] = n
              /\ right[n] # NULL => parent[right[n]] = n
        /\ \A p \in Nodes :
              retired[p] > 0 =>
                  /\ p \notin TreeNodes
                  /\ \A n \in TreeNodes :
                        parent[n] # p /\ left[n] # p /\ right[n] # p

\* A call whose p had two children went through the surgery, with the
\* successor taking p's place, and is about to return; nodes remain.
TreeLinksWitness ==
    /\ pc["w1"] = "rm_ret" /\ w["w1"].why = "done"
    /\ w["w1"].pl # NULL /\ w["w1"].pr # NULL /\ w["w1"].succ # NULL
    /\ retired[w["w1"].p] = 1
    /\ w["w1"].succ \in TreeNodes /\ Cardinality(TreeNodes) >= 2

=============================================================================
